---- MODULE Spec2Model ----
(***************************************************************************)
(* Token-ledger chaincode of jjhoii/my_fabric.                             *)
(*                                                                         *)
(* The repository holds two variants of the contract:                      *)
(*   "rich"    src/unnamed/part_000: accounts are JSON User records, read  *)
(*             with GetUser and written with json.Marshal;                 *)
(*   "compact" src/src/chaincode-go/chaincode/token_contract.go:           *)
(*             transferHelper reads balances with strconv.Atoi and writes  *)
(*             them with strconv.Itoa, while InitLedger and BalanceOf of   *)
(*             the same file still use the JSON User record.               *)
(*                                                                         *)
(* One invocation is one action.  The stub calls of an invocation are      *)
(* evaluated in program order; PutState and SetEvent only stage their      *)
(* effect, and the staged writes and event reach the world state when the  *)
(* entry point returns a nil error (the `return nil` / `return err` of     *)
(* each entry point is what the action's commit step translates).          *)
(***************************************************************************)
EXTENDS Integers, Sequences, FiniteSets, TLC

\* ------------------------------------------------------------------ bounds
MaxSteps == 4        \* invocations per behaviour
MaxInt   == 131071   \* largest value of the (scaled-down) native int
MaxPending == 2      \* proposals simulated but not yet committed

MinInt == -MaxInt - 1

\* --------------------------------------------------------------- constants
SeedUserBalance   == 100000
SeedSellerBalance == 0

Impls == {"rich", "compact"}

\* account ids callers pass; "Ghost" is never seeded, "tx1" is also a
\* transaction id (accounts and transactions share one key namespace)
Ids    == {"TestUser", "TestSeller", "Ghost", "tx1"}
TxName == <<"tx1", "tx2", "tx3", "tx4", "tx5", "tx6", "tx7", "tx8">>
TxIds  == {TxName[i] : i \in 1..Len(TxName)}
Keys   == Ids \cup TxIds

\* values callers pass (Go int arguments)
Amounts == {-1, 0, 2500, SeedUserBalance}

\* the stub call of an invocation that the peer fails, if any
Faults == {"none", "get1", "get2", "put1", "put2", "event"}

\* arguments callers pass to SetTransaction
TxParties == {"TestUser", "TestSeller"}
TxAmounts == {2500}

VARIABLES impl, world, events, prev, prevEvents, last, steps, pending, ver

vars == <<impl, world, events, prev, prevEvents, last, steps, pending, ver>>

\* ------------------------------------------------------ bytes in the store
\* A stored value is absent (GetState returns nil), the text of a base-10
\* integer, or the text of a JSON object (its members as a record).
Nil      == [kind |-> "nil"]
Num(n)   == [kind |-> "num", n |-> n]
Obj(rec) == [kind |-> "obj", fields |-> rec]

\* Go int arithmetic wraps modulo the width of int
Wrap(x) ==
  IF x > MaxInt THEN x - (2 * MaxInt + 2)
  ELSE IF x < MinInt THEN x + (2 * MaxInt + 2)
  ELSE x

User(id, type, balance) == [ID |-> id, type |-> type, balance |-> balance]

Transaction(txid, from, to, value) ==
  [TXID |-> txid, from |-> from, to |-> to, value |-> value]

event(from, to, value) == [from |-> from, to |-> to, value |-> value]

\* json.Marshal of a struct: the object with the struct's json tags
Marshal(rec) == Obj(rec)

Member(rec, name, default) ==
  IF name \in DOMAIN rec THEN rec[name] ELSE default

UnmarshalUser_nilIsZero(b) ==
  IF b.kind = "obj"
  THEN [err |-> "ok",
        val |-> User(Member(b.fields, "ID", ""),
                     Member(b.fields, "type", ""),
                     Member(b.fields, "balance", 0))]
  ELSE IF b.kind = "nil" THEN [err |-> "ok", val |-> User("", "", 0)]
  ELSE [err |-> "Decode", val |-> User("", "", 0)]

\* json.Unmarshal(bytes, &User): nil input and a bare number are errors;
\* an object fills the members it has and leaves the others zero
UnmarshalUser(b) ==
  IF b.kind = "obj"
  THEN [err |-> "ok",
        val |-> User(Member(b.fields, "ID", ""),
                     Member(b.fields, "type", ""),
                     Member(b.fields, "balance", 0))]
  ELSE [err |-> "Decode", val |-> User("", "", 0)]

\* json.Unmarshal(bytes, &Transaction)
UnmarshalTransaction(b) ==
  IF b.kind = "obj"
  THEN [err |-> "ok",
        val |-> Transaction(Member(b.fields, "TXID", ""),
                            Member(b.fields, "from", ""),
                            Member(b.fields, "to", ""),
                            Member(b.fields, "value", 0))]
  ELSE [err |-> "Decode", val |-> Transaction("", "", "", 0)]

\* strconv.Atoi with the error dropped: 0 for anything but an integer text
Atoi(b) == IF b.kind = "num" THEN b.n ELSE 0

\* []byte(strconv.Itoa(n))
Itoa(n) == Num(n)

\* ------------------------------------------------- one invocation's effects
Call(op, key)   == [op |-> op, key |-> key]
Write(key, val) == [key |-> key, val |-> val]

\* what an invocation hands back to the peer: its error ("ok" for nil), the
\* writes and the event it staged, and the stub calls it made, in order
Result(err, writes, ev, calls) ==
  [err |-> err, writes |-> writes, event |-> ev, calls |-> calls]

\* GetUser: GetState, then json.Unmarshal into a User
GetUser(w, id, fail) ==
  IF fail THEN [err |-> "ReadFailed", val |-> User("", "", 0)]
  ELSE UnmarshalUser(w[id])

\* GetTransaction: GetState, then json.Unmarshal into a Transaction
GetTransaction(w, txid, fail) ==
  IF fail THEN [err |-> "ReadFailed", val |-> Transaction("", "", "", 0)]
  ELSE UnmarshalTransaction(w[txid])

\* UserExist: userJSON != nil
UserExist(w, id) == w[id] # Nil

\* BalanceOf: any GetUser error becomes "user id ... does not exist"
BalanceOf(w, id) ==
  LET u == GetUser(w, id, FALSE)
  IN  IF u.err # "ok" THEN [err |-> "NotExist", balance |-> 0]
      ELSE [err |-> "ok", balance |-> u.val.balance]

\* what a query entry point hands back: no writes, no event, and the value
\* it returns
QueryResult(err, calls, field, ret) ==
  [err |-> err, writes |-> <<>>, event |-> <<>>, calls |-> calls]
    @@ (field :> ret)

\* BalanceOf as an invocation: one GetState; 0 and an error when GetUser
\* fails
BalanceOfQuery(w, id, fault) ==
  LET u == GetUser(w, id, fault = "get1")
      c == <<Call("GetState", id)>>
  IN  IF u.err # "ok" THEN QueryResult("NotExist", c, "balance", 0)
      ELSE QueryResult("ok", c, "balance", u.val.balance)

\* UserExist as an invocation: one GetState, no decoding
UserExistQuery(w, id, fault) ==
  LET c == <<Call("GetState", id)>>
  IN  IF fault = "get1" THEN QueryResult("ReadFailed", c, "exists", FALSE)
      ELSE QueryResult("ok", c, "exists", w[id] # Nil)

InitLedger_secondPutUnchecked(fault) ==
  LET a1 == User("TestUser", "user", SeedUserBalance)
      a2 == User("TestSeller", "seller", SeedSellerBalance)
      c1 == <<Call("PutState", a1.ID)>>
      c2 == Append(c1, Call("PutState", a2.ID))
      w1 == <<Write(a1.ID, Marshal(a1))>>
      w2 == Append(w1, Write(a2.ID, Marshal(a2)))
  IN  IF fault = "put1" THEN Result("PutFailed", <<>>, <<>>, c1)
      ELSE IF fault = "put2" THEN Result("ok", w1, <<>>, c2)
      ELSE Result("ok", w2, <<>>, c2)

InitLedger_sellerSkipped(fault) ==
  LET a1 == User("TestUser", "user", SeedUserBalance)
      c1 == <<Call("PutState", a1.ID)>>
      w1 == <<Write(a1.ID, Marshal(a1))>>
  IN  IF fault = "put1" THEN Result("PutFailed", <<>>, <<>>, c1)
      ELSE Result("ok", w1, <<>>, c1)

\* InitLedger: marshal and put the two seed users, stopping at the first
\* failed put
InitLedger(fault) ==
  LET a1 == User("TestUser", "user", SeedUserBalance)
      a2 == User("TestSeller", "seller", SeedSellerBalance)
      c1 == <<Call("PutState", a1.ID)>>
      c2 == Append(c1, Call("PutState", a2.ID))
      w1 == <<Write(a1.ID, Marshal(a1))>>
      w2 == Append(w1, Write(a2.ID, Marshal(a2)))
  IN  IF fault = "put1" THEN Result("PutFailed", <<>>, <<>>, c1)
      ELSE IF fault = "put2" THEN Result("PutFailed", w1, <<>>, c2)
      ELSE Result("ok", w2, <<>>, c2)

\* the checks of transferHelper (the same text in both variants)
SameAccount_off(from, to) == FALSE

SameAccount(from, to) == from = to

NegativeAmount_off(value) == FALSE

NegativeAmount(value) == value < 0

InsufficientFunds_off(balance, value) == FALSE

InsufficientFunds(balance, value) == balance < value

\* transferHelper of the rich variant (part_000)
transferHelperRich(w, from, to, value, fault) ==
  LET c1       == <<Call("GetState", from)>>
      fromRes  == GetUser(w, from, fault = "get1")
      c2       == Append(c1, Call("GetState", to))
      toRes    == GetUser(w, to, fault = "get2")
      fromUser == [fromRes.val EXCEPT !.balance = Wrap(@ - value)]
      toUser   == [toRes.val EXCEPT !.balance = Wrap(@ + value)]
      c3       == Append(c2, Call("PutState", from))
      w1       == <<Write(from, Marshal(fromUser))>>
      c4       == Append(c3, Call("PutState", to))
      w2       == Append(w1, Write(to, Marshal(toUser)))
  IN  IF SameAccount(from, to) THEN Result("SameAccount", <<>>, <<>>, <<>>)
      ELSE IF NegativeAmount(value)
           THEN Result("NegativeAmount", <<>>, <<>>, <<>>)
      ELSE IF fromRes.err # "ok" THEN Result(fromRes.err, <<>>, <<>>, c1)
      ELSE IF toRes.err # "ok" THEN Result(toRes.err, <<>>, <<>>, c2)
      ELSE IF InsufficientFunds(fromRes.val.balance, value)
           THEN Result("Insufficient", <<>>, <<>>, c2)
      ELSE IF fault = "put1" THEN Result("PutFailed", <<>>, <<>>, c3)
      ELSE IF fault = "put2" THEN Result("PutFailed", w1, <<>>, c4)
      ELSE Result("ok", w2, <<>>, c4)

\* transferHelper of the compact variant (token_contract.go)
transferHelperCompact(w, from, to, value, fault) ==
  LET c1   == <<Call("GetState", from)>>
      fromCurrentBalance == Atoi(w[from])
      c2   == Append(c1, Call("GetState", to))
      toCurrentBalance == IF w[to] = Nil THEN 0 ELSE Atoi(w[to])
      fromUpdatedBalance == Wrap(fromCurrentBalance - value)
      toUpdatedBalance   == Wrap(toCurrentBalance + value)
      c3   == Append(c2, Call("PutState", from))
      w1   == <<Write(from, Itoa(fromUpdatedBalance))>>
      c4   == Append(c3, Call("PutState", to))
      w2   == Append(w1, Write(to, Itoa(toUpdatedBalance)))
  IN  IF SameAccount(from, to) THEN Result("SameAccount", <<>>, <<>>, <<>>)
      ELSE IF NegativeAmount(value)
           THEN Result("NegativeAmount", <<>>, <<>>, <<>>)
      ELSE IF fault = "get1" THEN Result("ReadFailed", <<>>, <<>>, c1)
      ELSE IF w[from] = Nil THEN Result("NoBalance", <<>>, <<>>, c1)
      ELSE IF InsufficientFunds(fromCurrentBalance, value)
           THEN Result("Insufficient", <<>>, <<>>, c1)
      ELSE IF fault = "get2" THEN Result("ReadFailed", <<>>, <<>>, c2)
      ELSE IF fault = "put1" THEN Result("PutFailed", <<>>, <<>>, c3)
      ELSE IF fault = "put2" THEN Result("PutFailed", w1, <<>>, c4)
      ELSE Result("ok", w2, <<>>, c4)

transferHelper(im, w, from, to, value, fault) ==
  IF im = "rich" THEN transferHelperRich(w, from, to, value, fault)
  ELSE transferHelperCompact(w, from, to, value, fault)

SetEvent_swallowed(r, e, fault) ==
  LET c == Append(r.calls, Call("SetEvent", "Transfer"))
  IN  IF fault = "event" THEN Result("ok", r.writes, <<>>, c)
      ELSE Result("ok", r.writes, <<e>>, c)

\* SetEvent: marshal the event and hand it to the stub
SetEvent(r, e, fault) ==
  LET c == Append(r.calls, Call("SetEvent", "Transfer"))
  IN  IF fault = "event" THEN Result("EventFailed", r.writes, <<>>, c)
      ELSE Result("ok", r.writes, <<e>>, c)

TransferFrom_alwaysEmits(im, w, from, to, value, fault) ==
  LET h == transferHelper(im, w, from, to, value, fault)
      e == SetEvent(h, event(from, to, value), fault)
  IN  IF h.err # "ok" THEN Result(h.err, h.writes, e.event, e.calls)
      ELSE e

\* TransferFrom: transferHelper, then SetEvent only when the helper
\* returned nil
TransferFrom(im, w, from, to, value, fault) ==
  LET h == transferHelper(im, w, from, to, value, fault)
  IN  IF h.err # "ok" THEN h
      ELSE SetEvent(h, event(from, to, value), fault)

\* SetTransaction (rich variant only): put a Transaction under the
\* invocation's transaction id; the put's error is returned
SetTransaction(txid, from, to, balance, fault) ==
  LET c == <<Call("PutState", txid)>>
      t == Transaction(txid, from, to, balance)
  IN  IF fault = "put1" THEN Result("PutFailed", <<>>, <<>>, c)
      ELSE Result("ok", <<Write(txid, Marshal(t))>>, <<>>, c)

\* ------------------------------------------------------------- the ledger
RECURSIVE Apply(_, _)
\* the world state with a write set applied in order
Apply(w, writes) ==
  IF writes = <<>> THEN w
  ELSE Apply([w EXCEPT ![Head(writes).key] = Head(writes).val], Tail(writes))

\* the peer commits an invocation's writes and event only when the entry
\* point returned nil
Commit(w, r) == IF r.err = "ok" THEN Apply(w, r.writes) ELSE w

Emitted(evs, r) == IF r.err = "ok" THEN evs \o r.event ELSE evs

NoResult == Result("ok", <<>>, <<>>, <<>>)

Invocation(op, from, to, value, fault, txid, r) ==
  [op |-> op, from |-> from, to |-> to, value |-> value, fault |-> fault,
   txid |-> txid, res |-> r]

Init ==
  /\ impl \in Impls
  /\ world = [k \in Keys |-> Nil]
  /\ events = <<>>
  /\ prev = [k \in Keys |-> Nil]
  /\ prevEvents = <<>>
  /\ last = Invocation("none", "", "", 0, "none", "", NoResult)
  /\ steps = 0
  /\ pending = {}
  /\ ver = [k \in Keys |-> 0]

CountOp(calls, op) == Cardinality({i \in 1..Len(calls) : calls[i].op = op})

\* a fault names the stub call it fails; it takes effect only in an
\* invocation that makes that call
FaultReached(fault, calls) ==
  CASE fault = "none"  -> TRUE
    [] fault = "get1"  -> CountOp(calls, "GetState") >= 1
    [] fault = "get2"  -> CountOp(calls, "GetState") >= 2
    [] fault = "put1"  -> CountOp(calls, "PutState") >= 1
    [] fault = "put2"  -> CountOp(calls, "PutState") >= 2
    [] fault = "event" -> CountOp(calls, "SetEvent") >= 1

\* the peer runs one invocation r of entry point op and commits it; the
\* invocation is simulated and committed in one step, so no proposal is
\* pending and the key versions, which only validate pending proposals, are
\* not advanced
Invoke(op, from, to, value, fault, r) ==
  /\ FaultReached(fault, r.calls)
  /\ world' = Commit(world, r)
  /\ events' = Emitted(events, r)
  /\ prev' = world
  /\ prevEvents' = events
  /\ last' = Invocation(op, from, to, value, fault, TxName[steps + 1], r)
  /\ steps' = steps + 1
  /\ UNCHANGED <<impl, pending, ver>>

InitLedgerAct ==
  /\ steps < MaxSteps
  /\ \E fault \in {"none", "put1", "put2"} :
       Invoke("InitLedger", "", "", 0, fault, InitLedger(fault))

TransferFromAct ==
  /\ steps < MaxSteps
  /\ \E from \in Ids, to \in Ids, value \in Amounts, fault \in Faults :
       Invoke("TransferFrom", from, to, value, fault,
              TransferFrom(impl, world, from, to, value, fault))

SetTransactionAct ==
  /\ steps < MaxSteps
  /\ impl = "rich"
  /\ \E from \in TxParties, to \in TxParties, balance \in TxAmounts,
        fault \in {"none", "put1"} :
       Invoke("SetTransaction", from, to, balance, fault,
              SetTransaction(TxName[steps + 1], from, to, balance, fault))

BalanceOfAct ==
  /\ steps < MaxSteps
  /\ \E id \in Ids, fault \in {"none", "get1"} :
       Invoke("BalanceOf", id, "", 0, fault, BalanceOfQuery(world, id, fault))

\* UserExist is a method of the contract, hence an entry point, only in the
\* rich variant; token_contract.go declares it as a plain function
UserExistAct ==
  /\ steps < MaxSteps
  /\ impl = "rich"
  /\ \E id \in Ids, fault \in {"none", "get1"} :
       Invoke("UserExist", id, "", 0, fault, UserExistQuery(world, id, fault))

Next ==
  \/ InitLedgerAct
  \/ TransferFromAct
  \/ SetTransactionAct
  \/ BalanceOfAct
  \/ UserExistAct

Spec == Init /\ [][Next]_vars

\* a deployment on which InitLedger has been committed once, then driven by
\* TransferFrom invocations only
EmptyWorld == [k \in Keys |-> Nil]

Seeded == Commit(EmptyWorld, InitLedger("none"))

InitSeeded ==
  /\ impl \in Impls
  /\ world = Seeded
  /\ events = <<>>
  /\ prev = EmptyWorld
  /\ prevEvents = <<>>
  /\ last = Invocation("InitLedger", "", "", 0, "none", TxName[1],
                       InitLedger("none"))
  /\ steps = 1
  /\ pending = {}
  /\ ver = [k \in Keys |-> 0]

NextTransfers == TransferFromAct

SpecTransfers == InitSeeded /\ [][NextTransfers]_vars

\* ---------------------------------------------------------------- claims
IsTransfer == last.op = "TransferFrom"
Ok         == last.res.err = "ok"
Unchanged  == world = prev /\ events = prevEvents
TheEvent   == event(last.from, last.to, last.value)

\* C1: a successful TransferFrom leaves BalanceOf(from) + BalanceOf(to)
\* as it was (both balances being reported before, they are reported after
\* and add up to the same sum).
C1_Conservation ==
  (/\ IsTransfer /\ Ok
   /\ BalanceOf(prev, last.from).err = "ok"
   /\ BalanceOf(prev, last.to).err = "ok")
  => /\ BalanceOf(world, last.from).err = "ok"
     /\ BalanceOf(world, last.to).err = "ok"
     /\ BalanceOf(world, last.from).balance + BalanceOf(world, last.to).balance
          = BalanceOf(prev, last.from).balance + BalanceOf(prev, last.to).balance

\* C2: after InitLedger and any TransferFrom invocations, no key holds a
\* negative balance, whichever reader of the contract decodes it.
C2_NonNegative ==
  \A k \in Keys : BalanceOf(world, k).balance >= 0 /\ Atoi(world[k]) >= 0

C2_Witness ==
  /\ IsTransfer /\ Ok /\ last.value > 0
  /\ BalanceOf(world, last.from).balance < BalanceOf(prev, last.from).balance
  /\ BalanceOf(world, last.from).balance >= 0

\* C3: a TransferFrom invocation in which any step fails returns an error,
\* and one that returns an error leaves the committed world state and the
\* committed events as they were.
C3_AllOrNothing ==
  IsTransfer =>
    /\ last.fault # "none" => ~Ok
    /\ ~Ok => Unchanged

C3_Witness ==
  /\ IsTransfer /\ ~Ok /\ last.fault \in {"put2", "event"}
  /\ Len(last.res.writes) >= 1
  /\ last.value > 0
  /\ Unchanged

\* C4: on an empty world state, InitLedger() then
\* TransferFrom("TestUser", "TestSeller", 2500) succeeds and leaves
\* BalanceOf("TestUser") = 97500, BalanceOf("TestSeller") = 2500 and exactly
\* one emitted event {TestUser, TestSeller, 2500}.
C4_EndToEnd ==
  (/\ steps = 2 /\ IsTransfer /\ prev = Seeded /\ prevEvents = <<>>
   /\ last.from = "TestUser" /\ last.to = "TestSeller" /\ last.value = 2500
   /\ last.fault = "none")
  => /\ Ok
     /\ BalanceOf(world, "TestUser") = [err |-> "ok", balance |-> 97500]
     /\ BalanceOf(world, "TestSeller") = [err |-> "ok", balance |-> 2500]
     /\ events = <<event("TestUser", "TestSeller", 2500)>>

\* C5: TransferFrom(A, B, v) from an existing sender A whose balance is
\* below v fails with the insufficient-funds error, writes nothing and
\* emits nothing.
C5_Insufficient ==
  (/\ IsTransfer /\ last.fault = "none" /\ last.from # last.to
   /\ UserExist(prev, last.from)
   /\ BalanceOf(prev, last.from).err = "ok"
   /\ last.value > BalanceOf(prev, last.from).balance)
  => /\ last.res.err = "Insufficient"
     /\ last.res.writes = <<>> /\ last.res.event = <<>>
     /\ Unchanged

\* C6: TransferFrom(A, A, v) fails with the same-account error for every id
\* A and every v, without any stub call, write or event.
C6_SelfTransfer ==
  (IsTransfer /\ last.from = last.to)
  => /\ last.res.err = "SameAccount"
     /\ last.res.calls = <<>> /\ last.res.writes = <<>>
     /\ last.res.event = <<>>
     /\ Unchanged

C6_Witness ==
  /\ IsTransfer /\ last.from = last.to /\ last.value >= 0
  /\ UserExist(prev, last.from)
  /\ last.res.err = "SameAccount"

\* C7: TransferFrom(A, B, v) with A # B and v < 0 fails with the
\* negative-amount error before any store read or write, and emits nothing.
C7_NegativeValue ==
  (IsTransfer /\ last.from # last.to /\ last.value < 0)
  => /\ last.res.err = "NegativeAmount"
     /\ last.res.calls = <<>> /\ last.res.writes = <<>>
     /\ last.res.event = <<>>
     /\ Unchanged

C7_Witness ==
  /\ IsTransfer /\ last.from # last.to /\ last.value < 0
  /\ UserExist(prev, last.from) /\ UserExist(prev, last.to)
  /\ last.res.err = "NegativeAmount"

\* C8: TransferFrom(A, B, 0) between two distinct existing accounts
\* succeeds, leaves BalanceOf(A) and BalanceOf(B) as they were, emits the
\* Transfer event and, in the rich variant, leaves a Transaction record under
\* the invocation's transaction id.
C8_ZeroTransfer ==
  (/\ IsTransfer /\ last.fault = "none" /\ last.from # last.to
   /\ last.value = 0
   /\ UserExist(prev, last.from) /\ UserExist(prev, last.to))
  => /\ Ok
     /\ BalanceOf(world, last.from) = BalanceOf(prev, last.from)
     /\ BalanceOf(world, last.to) = BalanceOf(prev, last.to)
     /\ events = Append(prevEvents, TheEvent)
     /\ impl = "rich" =>
          GetTransaction(world, last.txid, FALSE)
            = [err |-> "ok",
               val |-> Transaction(last.txid, last.from, last.to, 0)]

\* the positions of a stub call in an invocation's calls
Positions(calls, op, key) ==
  {i \in 1..Len(calls) : calls[i] = Call(op, key)}

\* C9: a successful TransferFrom emits exactly one Transfer event, carrying
\* {from, to, value}, after the PutState of both balances; a TransferFrom
\* whose transferHelper fails calls SetEvent not at all.
C9_EventEmission ==
  IsTransfer =>
    LET calls == last.res.calls
        evAt  == Positions(calls, "SetEvent", "Transfer")
    IN  IF Ok
        THEN /\ last.res.event = <<TheEvent>>
             /\ events = Append(prevEvents, TheEvent)
             /\ Cardinality(evAt) = 1
             /\ \E i \in Positions(calls, "PutState", last.from),
                   j \in Positions(calls, "PutState", last.to) :
                  \A e \in evAt : i < e /\ j < e
        ELSE /\ events = prevEvents
             /\ last.res.err # "EventFailed"
                  => evAt = {} /\ last.res.event = <<>>

C9_Witness ==
  /\ IsTransfer /\ Ok /\ last.value > 0
  /\ events = Append(prevEvents, TheEvent)

\* C10: in the rich variant a successful TransferFrom leaves, under the
\* invocation's transaction id, a Transaction record with the invocation's
\* from, to and value, which GetTransaction returns.
C10_Recording ==
  (impl = "rich" /\ IsTransfer /\ Ok)
  => GetTransaction(world, last.txid, FALSE)
       = [err |-> "ok",
          val |-> Transaction(last.txid, last.from, last.to, last.value)]

\* the class of the spec's error taxonomy an error of the code falls in: a
\* missing or undecodable record is NotFound
ErrClass(err) ==
  CASE err \in {"Decode", "NoBalance", "NotExist"} -> "NotFound"
    [] err \in {"SameAccount", "NegativeAmount"} -> "InvalidArgument"
    [] err = "Insufficient" -> "FailedPrecondition"
    [] err \in {"ReadFailed", "PutFailed", "EventFailed"} -> "Internal"
    [] OTHER -> err

\* C11: in the rich variant, TransferFrom from an existing sender to an id
\* with no stored value and with value >= 0 fails with NotFound (GetUser's
\* error for the recipient), writes nothing at `to` and leaves the sender's
\* balance as it was.
C11_RichAbsentRecipient ==
  (/\ impl = "rich" /\ IsTransfer /\ last.fault = "none"
   /\ UserExist(prev, last.from) /\ prev[last.to] = Nil
   /\ last.value >= 0)
  => /\ ErrClass(last.res.err) = "NotFound"
     /\ last.res.calls = <<Call("GetState", last.from),
                           Call("GetState", last.to)>>
     /\ last.res.writes = <<>>
     /\ world[last.to] = Nil
     /\ BalanceOf(world, last.from) = BalanceOf(prev, last.from)
     /\ Unchanged

C11_Witness ==
  /\ impl = "rich" /\ IsTransfer /\ last.fault = "none"
  /\ last.from = "TestUser" /\ last.to = "Ghost" /\ last.value = 2500
  /\ BalanceOf(prev, "TestUser") = [err |-> "ok", balance |-> SeedUserBalance]
  /\ last.res.err = "Decode"
  /\ world["Ghost"] = Nil

\* the balance a stored value denotes: the balance member of an account
\* record, or the integer of an integer text
StoredBalance(b) ==
  IF b.kind = "obj" THEN Member(b.fields, "balance", 0)
  ELSE IF b.kind = "num" THEN b.n
  ELSE 0

\* C12: in the compact variant, TransferFrom from a sender holding b with
\* b >= value >= 0 to an id with no stored value succeeds and leaves
\* b - value at `from` and a new entry of exactly `value` at `to`.
C12_CompactAbsentRecipient ==
  (/\ impl = "compact" /\ IsTransfer /\ last.fault = "none"
   /\ last.from # last.to
   /\ UserExist(prev, last.from) /\ prev[last.to] = Nil
   /\ last.value >= 0 /\ StoredBalance(prev[last.from]) >= last.value)
  => /\ Ok
     /\ StoredBalance(world[last.from])
          = StoredBalance(prev[last.from]) - last.value
     /\ world[last.to] = Itoa(last.value)

IsInitLedger == last.op = "InitLedger"

\* C13: after a successful InitLedger, BalanceOf("TestUser") is 100000 and
\* BalanceOf("TestSeller") is 0; an InitLedger whose first or second seed
\* write fails returns an error right after that write and commits no seed
\* account.
C13_Bootstrap ==
  IsInitLedger =>
    /\ last.fault = "none" =>
         /\ Ok
         /\ BalanceOf(world, "TestUser")
              = [err |-> "ok", balance |-> SeedUserBalance]
         /\ BalanceOf(world, "TestSeller")
              = [err |-> "ok", balance |-> SeedSellerBalance]
    /\ last.fault = "put1" =>
         ~Ok /\ Len(last.res.calls) = 1 /\ Unchanged
    /\ last.fault = "put2" =>
         ~Ok /\ Len(last.res.calls) = 2 /\ Unchanged

C13_Witness ==
  /\ IsInitLedger /\ last.fault = "put2"
  /\ prev["TestUser"] = Nil /\ prev["TestSeller"] = Nil
  /\ Len(last.res.writes) = 1
  /\ world["TestUser"] = Nil

IsQuery == last.op \in {"BalanceOf", "UserExist"}

\* a query invocation stages no write and no event and changes nothing
QueryReadOnly ==
  IsQuery =>
    /\ last.res.writes = <<>> /\ last.res.event = <<>>
    /\ last.res.calls = <<Call("GetState", last.from)>>
    /\ Unchanged

\* BalanceOf fails exactly when nothing is stored at id, and otherwise
\* returns the balance stored there
BalanceOfReports ==
  (last.op = "BalanceOf" /\ last.fault = "none") =>
    IF prev[last.from] = Nil
    THEN ErrClass(last.res.err) = "NotFound"
    ELSE /\ Ok
         /\ last.res.balance = StoredBalance(prev[last.from])

\* the same query, invoked twice in a row without a fault, returns the same
QueryRepeatable ==
  (/\ IsQuery /\ last.fault = "none"
   /\ last'.op = last.op /\ last'.from = last.from /\ last'.fault = "none")
  => last'.res = last.res

\* C14: BalanceOf and UserExist never write or emit; BalanceOf fails with
\* NotFound when nothing is stored at id and otherwise returns the stored
\* account's balance; a query repeated with no write in between returns the
\* same result.
C14_Queries ==
  /\ [](QueryReadOnly /\ BalanceOfReports)
  /\ [][QueryRepeatable]_vars

\* ------------------------------------------------- longer, narrower runs
\* The same entry points without faults and with the one transfer value
\* that moves a whole seed balance, run one invocation longer than Spec:
\* long enough for a third account (a key first written by SetTransaction)
\* to be paid the seed balance twice.
DeepSteps   == MaxSteps + 1
DeepSenders == {"TestUser"}
DeepPayees  == {"TestSeller", "tx1"}

InitLedgerDeep ==
  /\ steps < DeepSteps
  /\ Invoke("InitLedger", "", "", 0, "none", InitLedger("none"))

TransferFromDeep ==
  /\ steps < DeepSteps
  /\ \E from \in DeepSenders, to \in DeepPayees :
       Invoke("TransferFrom", from, to, SeedUserBalance, "none",
              TransferFrom(impl, world, from, to, SeedUserBalance, "none"))

SetTransactionDeep ==
  /\ steps < DeepSteps
  /\ impl = "rich"
  /\ \E from \in TxParties, to \in TxParties, balance \in TxAmounts :
       Invoke("SetTransaction", from, to, balance, "none",
              SetTransaction(TxName[steps + 1], from, to, balance, "none"))

NextDeep == InitLedgerDeep \/ TransferFromDeep \/ SetTransactionDeep

SpecDeep == Init /\ [][NextDeep]_vars

\* the balance transferHelper takes as an account's current balance
CurrentBalance(im, w, id) ==
  IF im = "rich" THEN GetUser(w, id, FALSE).val.balance
  ELSE IF w[id] = Nil THEN 0
  ELSE Atoi(w[id])

\* C15: a TransferFrom whose recipient balance plus value exceeds the
\* native int range returns an error and writes nothing.
C15_OverflowFails ==
  (/\ IsTransfer /\ last.fault = "none" /\ last.from # last.to
   /\ last.value >= 0
   /\ CurrentBalance(impl, prev, last.to) + last.value > MaxInt)
  => /\ ~Ok
     /\ last.res.writes = <<>>
     /\ Unchanged

\* the error class the order validation, sender resolution, sufficiency
\* check, recipient resolution gives a fault-free TransferFrom, the balances
\* and the existence being those the variant's transferHelper reads
FirstFailingCheck(im, w, from, to, value) ==
  IF from = to \/ value < 0 THEN "InvalidArgument"
  ELSE IF w[from] = Nil THEN "NotFound"
  ELSE IF CurrentBalance(im, w, from) < value THEN "FailedPrecondition"
  ELSE IF im = "rich" /\ w[to] = Nil THEN "NotFound"
  ELSE "ok"

\* C16: the error of a TransferFrom is that of the first failing check in
\* the order validation, sender resolution, sufficiency check, recipient
\* resolution; a sender with too small a balance and an absent recipient
\* give the insufficient-funds error.
C16_CheckOrder ==
  (IsTransfer /\ last.fault = "none")
  => ErrClass(last.res.err)
       = FirstFailingCheck(impl, prev, last.from, last.to, last.value)

\* C17: every value a successful InitLedger or TransferFrom writes at an
\* account key is read back with the balance it was written with by both
\* readers of the same variant: BalanceOf and transferHelper.
C17_ReadersAgree ==
  (last.op \in {"InitLedger", "TransferFrom"} /\ Ok)
  => \A i \in 1..Len(last.res.writes) :
       LET key     == last.res.writes[i].key
           written == StoredBalance(last.res.writes[i].val)
       IN  /\ BalanceOf(world, key) = [err |-> "ok", balance |-> written]
           /\ CurrentBalance(impl, world, key) = written

\* a value SetTransaction wrote: a JSON object with the Transaction's members
IsTransactionRecord(b) == b.kind = "obj" /\ "TXID" \in DOMAIN b.fields

\* C18: a Transaction record, once stored under a transaction id, is left
\* as it is by every later InitLedger, TransferFrom and SetTransaction
\* invocation.
C18_TransactionImmutable ==
  (last.op \in {"InitLedger", "TransferFrom", "SetTransaction"})
  => \A k \in Keys : IsTransactionRecord(prev[k]) => world[k] = prev[k]

SeedIds == {"TestUser", "TestSeller"}

\* C19: a successful InitLedger, in whatever state it is invoked, writes
\* exactly the keys "TestUser" and "TestSeller", leaves them with balances
\* 100000 and 0, leaves every other key as it was, and changes nothing when
\* invoked again.
C19_InitLedgerUnconditional ==
  (IsInitLedger /\ Ok)
  => /\ {last.res.writes[i].key : i \in 1..Len(last.res.writes)} = SeedIds
     /\ BalanceOf(world, "TestUser")
          = [err |-> "ok", balance |-> SeedUserBalance]
     /\ BalanceOf(world, "TestSeller")
          = [err |-> "ok", balance |-> SeedSellerBalance]
     /\ \A k \in Keys \ SeedIds : world[k] = prev[k]
     /\ events = prevEvents
     /\ Commit(world, InitLedger("none")) = world

C19_Witness ==
  /\ IsInitLedger /\ Ok
  /\ prev["TestUser"] # Nil /\ prev["TestSeller"] # Nil
  /\ BalanceOf(prev, "TestUser").balance # SeedUserBalance
  /\ BalanceOf(prev, "TestSeller").balance # SeedSellerBalance
  /\ \E k \in Keys \ SeedIds : prev[k] # Nil /\ world[k] = prev[k]

\* ------------------------------------------- concurrently simulated transfers
\* The peer simulates an invocation against the committed state, recording
\* the version of every key it read; the proposal is committed later, in
\* any order, and only if none of those keys has been written since.
ReadKeys(calls) ==
  {calls[i].key : i \in {j \in 1..Len(calls) : calls[j].op = "GetState"}}

WrittenKeys(writes) == {writes[i].key : i \in 1..Len(writes)}

Proposal(txid, from, to, value, r, vs) ==
  [txid |-> txid, from |-> from, to |-> to, value |-> value, res |-> r,
   readVer |-> [k \in ReadKeys(r.calls) |-> vs[k]]]

Validate_off(p, vs) == TRUE

\* the read set of a proposal is still current
Validate(p, vs) == \A k \in DOMAIN p.readVer : vs[k] = p.readVer[k]

\* a TransferFrom that returned nil is submitted for ordering
SimulateAct ==
  /\ steps < MaxSteps
  /\ Cardinality(pending) < MaxPending
  /\ \E from \in Ids, to \in Ids, value \in Amounts :
       LET r == TransferFrom(impl, world, from, to, value, "none")
       IN  /\ r.err = "ok"
           /\ pending' = pending \cup
                {Proposal(TxName[steps + 1], from, to, value, r, ver)}
  /\ steps' = steps + 1
  /\ UNCHANGED <<impl, world, events, prev, prevEvents, last, ver>>

\* the next ordered proposal is validated and, when valid, committed
CommitAct ==
  \E p \in pending :
    LET r == IF Validate(p, ver) THEN p.res
             ELSE [p.res EXCEPT !.err = "ReadConflict"]
    IN  /\ world' = Commit(world, r)
        /\ events' = Emitted(events, r)
        /\ ver' = [k \in Keys |->
                     IF r.err = "ok" /\ k \in WrittenKeys(r.writes)
                     THEN ver[k] + 1 ELSE ver[k]]
        /\ prev' = world
        /\ prevEvents' = events
        /\ last' = Invocation("TransferFrom", p.from, p.to, p.value, "none",
                              p.txid, r)
        /\ pending' = pending \ {p}
        /\ UNCHANGED <<impl, steps>>

NextConcurrent == SimulateAct \/ CommitAct

\* the ledger the proposals run against: seeded by InitLedger and, in the
\* rich variant, with a third key that decodes as an account, stored by a
\* SetTransaction invocation before it
Recorded ==
  Commit(EmptyWorld,
         SetTransaction(TxName[1], "TestUser", "TestSeller", 2500, "none"))

InitLive ==
  /\ impl \in Impls
  /\ prev = (IF impl = "rich" THEN Recorded ELSE EmptyWorld)
  /\ world = Commit(prev, InitLedger("none"))
  /\ events = <<>>
  /\ prevEvents = <<>>
  /\ steps = (IF impl = "rich" THEN 2 ELSE 1)
  /\ last = Invocation("InitLedger", "", "", 0, "none", TxName[steps],
                       InitLedger("none"))
  /\ pending = {}
  /\ ver = [k \in Keys |-> 0]

SpecConcurrent == InitLive /\ [][NextConcurrent]_vars

RECURSIVE TotalBalance(_, _)
\* the sum of the balances BalanceOf reports for the keys of S
TotalBalance(w, S) ==
  IF S = {} THEN 0
  ELSE LET k == CHOOSE x \in S : TRUE
       IN  BalanceOf(w, k).balance + TotalBalance(w, S \ {k})

\* every key an invocation puts was read earlier in the same invocation
ReadBeforeWrite(calls) ==
  \A i \in 1..Len(calls) :
    calls[i].op = "PutState"
      => \E j \in 1..(i - 1) : calls[j] = Call("GetState", calls[i].key)

\* C20: TransferFrom reads every key before it writes it, so with transfers
\* simulated concurrently and committed only while their read keys are
\* unchanged, every committed state keeps the total of all balances and has
\* no negative balance.
C20_Concurrent ==
  /\ \A p \in pending : ReadBeforeWrite(p.res.calls)
  /\ TotalBalance(world, Keys) = SeedUserBalance + SeedSellerBalance
  /\ \A k \in Keys : BalanceOf(world, k).balance >= 0

====
